---- MODULE Spec2Model ----
(***************************************************************************)
(* The constant-expression registry of src/index/const_expressions.rs:     *)
(* ConstExpressions, a generational arena of ConstWrapper entries keyed by *)
(* ConstId (slot index + generation).                                      *)
(*                                                                         *)
(* Option<T> is a sequence of length <= 1 (None == <<>>, Some(x) == <<x>>);*)
(* Result<T, E> is a pair <<"Ok", v>> or <<"Err", e>>; a formatted message *)
(* is the tuple of its fixed text and its arguments.                       *)
(***************************************************************************)
EXTENDS Integers, Sequences, FiniteSets, TLC

VARIABLES
    expressions,   \* ConstExpressions.expressions : Arena<ConstWrapper>
    ret,           \* the last call on the registry and what it returned: <<operation, value>>
    issued,        \* history: every ConstId an insertion has returned
    given,         \* history: live handle -> the type name supplied to its insertion
    original,      \* history: live handle not yet marked resolved -> the statement inserted
    marked,        \* history: live handles a mark_resolved / mark_unresolvable succeeded on
    dead,          \* history: every ConstId whose entry a remove call has returned
    inserts,       \* history: number of insertions performed
    removes,       \* history: number of remove calls made
    removed,       \* history: number of remove calls that returned an entry
    driver         \* the compiler driver of src/main.rs: its position, parameters and effects

vars ==
    <<expressions, ret, issued, given, original, marked, dead, inserts, removes, removed,
      driver>>

(***************************************************************************)
(* Bounds of the model.                                                    *)
(***************************************************************************)
\* insertions made in one behaviour of Spec and of SpecTypes
MaxInserts == 2
\* remove calls made in one behaviour of Spec and of SpecTypes
MaxRemoves == 2
\* insertions made in one behaviour of SpecArena (enough to make the arena grow)
MaxArenaInserts == 6
\* remove calls made in one behaviour of SpecArena
MaxArenaRemoves == 2

(***************************************************************************)
(* Values.                                                                 *)
(***************************************************************************)
None == <<>>
Some(x) == <<x>>
Ok(v) == <<"Ok", v>>
Err(e) == <<"Err", e>>
Unit == <<>>

\* AstStatement: the shapes the registry distinguishes.
LiteralInteger(v) == [kind |-> "LiteralInteger", value |-> v]
BinaryExpression(l, r) == [kind |-> "BinaryExpression", left |-> l, right |-> r]
Reference(n) == [kind |-> "Reference", name |-> n]

\* statements the analyzer registers, and statements it evaluates them to
Parsed == { BinaryExpression(3, 4), LiteralInteger(42) }
Evaluated == { LiteralInteger(7), LiteralInteger(42) }
Statements == Parsed \cup Evaluated
ArenaStatements == { Reference("Z") }
TypeNames == { "INT", "DINT" }
ArenaTypeNames == { "INT" }
Reasons == { "undeclared symbol Z", "cannot resolve" }

\* AstStatement::clone (derived): a field-by-field copy.
clone(statement) == [f \in DOMAIN statement |-> statement[f]]

\* enum ConstExpression
Unresolved(statement) == [tag |-> "Unresolved", statement |-> statement]
Resolved(statement) == [tag |-> "Resolved", statement |-> statement]
Unresolvable(statement, reason) ==
    [tag |-> "Unresolvable", statement |-> statement, reason |-> reason]

\* struct ConstWrapper
ConstWrapper(expr, target_type_name) ==
    [expr |-> expr, target_type_name |-> target_type_name]

\* ConstExpression::get_statement
ConstExpression_get_statement(expr) ==
    CASE expr.tag = "Unresolved" -> expr.statement
      [] expr.tag = "Resolved" -> expr.statement
      [] expr.tag = "Unresolvable" -> expr.statement

\* ConstWrapper::get_statement
ConstWrapper_get_statement(wrapper) ==
    CASE wrapper.expr.tag = "Unresolved" -> wrapper.expr.statement
      [] wrapper.expr.tag = "Resolved" -> wrapper.expr.statement
      [] wrapper.expr.tag = "Unresolvable" -> wrapper.expr.statement

(***************************************************************************)
(* generational_arena::Arena, as the registry uses it.  Slot i of the      *)
(* vector is items[i + 1].                                                 *)
(***************************************************************************)
\* type ConstId = generational_arena::Index
ConstId(index, generation) == [index |-> index, generation |-> generation]

Free(next_free) == [tag |-> "Free", next_free |-> next_free]
Occupied(generation, value) ==
    [tag |-> "Occupied", generation |-> generation, value |-> value]

\* Arena::reserve: append `additional` free slots, chained in front of the free list
Arena_reserve(arena, additional) ==
    LET start == Len(arena.items)
        end == start + additional
        fresh == [k \in 1..additional |->
                    IF start + k - 1 = end - 1
                    THEN Free(arena.free_list_head)
                    ELSE Free(Some(start + k))]
    IN  [arena EXCEPT !.items = arena.items \o fresh,
                      !.free_list_head = Some(start)]

DEFAULT_CAPACITY == 4

\* Arena::new, as ConstExpressions::new and the derived Default call it
Arena_new ==
    Arena_reserve([items |-> <<>>, generation |-> 0, free_list_head |-> None, len |-> 0],
                  DEFAULT_CAPACITY)

\* Arena::try_insert: <<"Ok", arena', index>> or <<"Err">> when no slot is free
Arena_try_insert(arena, value) ==
    IF arena.free_list_head = None
    THEN <<"Err">>
    ELSE LET i == arena.free_list_head[1]
             index == ConstId(i, arena.generation)
         IN  <<"Ok",
               [arena EXCEPT !.free_list_head = arena.items[i + 1].next_free,
                             !.len = arena.len + 1,
                             !.items[i + 1] = Occupied(arena.generation, value)],
               index>>

\* Arena::insert: try_insert, growing the arena (doubling) when it is full
Arena_insert(arena, value) ==
    LET fast == Arena_try_insert(arena, value)
    IN  IF fast[1] = "Ok"
        THEN [arena |-> fast[2], index |-> fast[3]]
        ELSE LET additional == IF Len(arena.items) = 0 THEN 1 ELSE Len(arena.items)
                 slow == Arena_try_insert(Arena_reserve(arena, additional), value)
             IN  [arena |-> slow[2], index |-> slow[3]]

\* Arena::contains / the guard of Arena::get, get_mut and remove
Arena_contains(arena, i) ==
    /\ i.index < Len(arena.items)
    /\ arena.items[i.index + 1].tag = "Occupied"
    /\ arena.items[i.index + 1].generation = i.generation

\* Arena::get
Arena_get(arena, i) ==
    IF Arena_contains(arena, i) THEN Some(arena.items[i.index + 1].value) ELSE None

\* Arena::remove that frees the slot without advancing the generation
Arena_remove_same_generation(arena, i) ==
    IF Arena_contains(arena, i)
    THEN [arena |-> [arena EXCEPT !.items[i.index + 1] = Free(arena.free_list_head),
                                  !.free_list_head = Some(i.index),
                                  !.len = arena.len - 1],
          value |-> Some(arena.items[i.index + 1].value)]
    ELSE [arena |-> arena, value |-> None]

\* Arena::remove: frees the slot and advances the arena's generation
Arena_remove(arena, i) ==
    IF Arena_contains(arena, i)
    THEN [arena |-> [arena EXCEPT !.items[i.index + 1] = Free(arena.free_list_head),
                                  !.generation = arena.generation + 1,
                                  !.free_list_head = Some(i.index),
                                  !.len = arena.len - 1],
          value |-> Some(arena.items[i.index + 1].value)]
    ELSE [arena |-> arena, value |-> None]

\* Arena::get_mut followed by an assignment to the entry's expr field
Arena_set_expr(arena, i, expr) ==
    [arena EXCEPT !.items[i.index + 1].value.expr = expr]

\* Option::map
Option_map(opt, F(_)) == IF opt = None THEN None ELSE Some(F(opt[1]))

(***************************************************************************)
(* impl ConstExpressions: the lookups (&self methods).  `self` is the      *)
(* value of the registry's one field, `expressions`.                       *)
(***************************************************************************)
\* find_expression reading the slot whatever its generation
find_expression_by_position(self, id) ==
    IF id.index < Len(self.items) /\ self.items[id.index + 1].tag = "Occupied"
    THEN Some(ConstWrapper_get_statement(self.items[id.index + 1].value))
    ELSE None

find_expression(self, id) ==
    Option_map(Arena_get(self, id), ConstWrapper_get_statement)

TargetTypeName(wrapper) == wrapper.target_type_name
find_expression_target_type(self, id) ==
    Option_map(Arena_get(self, id), TargetTypeName)

Expr(wrapper) == wrapper.expr
find_const_expression(self, id) ==
    Option_map(Arena_get(self, id), Expr)

get_constant_statement(self, id) == find_expression(self, id)

\* Option::and_then
Option_and_then(opt, F(_)) == IF opt = None THEN None ELSE F(opt[1])

maybe_get_constant_statement(self, id) ==
    LET Get(it) == get_constant_statement(self, it)
    IN  Option_and_then(id, Get)

\* get_constant_int_statement_value accepting only an entry that is Resolved
get_constant_int_statement_value_if_resolved(self, id) ==
    LET found == find_const_expression(self, id)
    IN  IF found = None
        THEN Err(<<"Cannot find constant expression">>)
        ELSE IF found[1].tag = "Resolved" /\ found[1].statement.kind = "LiteralInteger"
             THEN Ok(found[1].statement.value)
             ELSE Err(<<"Cannot extract int constant from ", found[1].statement>>)

get_constant_int_statement_value(self, id) ==
    LET found == get_constant_statement(self, id)
    IN  IF found = None
        THEN Err(<<"Cannot find constant expression">>)
        ELSE IF found[1].kind = "LiteralInteger"
             THEN Ok(found[1].value)
             ELSE Err(<<"Cannot extract int constant from ", found[1]>>)

\* IntoStatementIter::next, called until it returns None: the pairs in storage order
RECURSIVE IterFrom(_, _)
IterFrom(self, pos) ==
    IF pos >= Len(self.items)
    THEN <<>>
    ELSE LET entry == self.items[pos + 1]
         IN  IF entry.tag = "Occupied"
             THEN << <<ConstId(pos, entry.generation),
                       ConstWrapper_get_statement(entry.value)>> >> \o IterFrom(self, pos + 1)
             ELSE IterFrom(self, pos + 1)

\* an iteration that starts after the first slot
into_iter_after_first_slot(self) == IterFrom(self, 1)

\* an iteration that passes over the entries still waiting to be evaluated
into_iter_skipping_unresolved(self) ==
    LET Evaluated_entry(pair) == self.items[pair[1].index + 1].value.expr.tag # "Unresolved"
    IN  SelectSeq(IterFrom(self, 0), Evaluated_entry)

\* IntoIterator for &ConstExpressions
into_iter(self) == IterFrom(self, 0)

(***************************************************************************)
(* Handles.  AllIds is every slot position of the arena and one beyond it, *)
(* with every generation up to one beyond the arena's: the lookups are     *)
(* examined on all of them.  The mutating calls are made with the handles  *)
(* insertions have returned (live or removed) and with handles no insertion*)
(* returned: a position beyond the storage, and the handle the next        *)
(* insertion is going to return.                                           *)
(***************************************************************************)
AllIds ==
    { ConstId(i, g) : i \in 0..Len(expressions.items), g \in 0..(expressions.generation + 1) }

NeverIssued ==
    ( { ConstId(Len(expressions.items), 0) }
      \cup { ConstId(expressions.free_list_head[k], expressions.generation) :
                k \in 1..Len(expressions.free_list_head) } ) \ issued

Ids == issued \cup NeverIssued

Live == { id \in AllIds : Arena_contains(expressions, id) }

(***************************************************************************)
(* impl ConstExpressions: the mutating operations, one action each.        *)
(***************************************************************************)
\* the driver before main is entered: the registry is exercised on its own
NotStarted == [pc |-> "not started"]

Init ==
    /\ expressions = Arena_new
    /\ ret = <<"new", Unit>>
    /\ issued = {}
    /\ given = <<>>
    /\ original = <<>>
    /\ marked = {}
    /\ dead = {}
    /\ inserts = 0
    /\ removes = 0
    /\ removed = 0
    /\ driver = NotStarted

\* add_expression registering the statement as already resolved
add_expression_as_resolved(statement, target_type_name) ==
    LET r == Arena_insert(expressions,
                          ConstWrapper(Resolved(statement), target_type_name))
    IN  /\ expressions' = r.arena
        /\ ret' = <<"add_expression", r.index>>
        /\ issued' = issued \cup {r.index}
        /\ given' = [id \in DOMAIN given \cup {r.index} |->
                        IF id = r.index THEN target_type_name ELSE given[id]]
        /\ original' = [id \in DOMAIN original \cup {r.index} |->
                           IF id = r.index THEN statement ELSE original[id]]
        /\ inserts' = inserts + 1
        /\ UNCHANGED <<marked, dead, removes, removed>>

add_expression(statement, target_type_name) ==
    LET r == Arena_insert(expressions,
                          ConstWrapper(Unresolved(statement), target_type_name))
    IN  /\ expressions' = r.arena
        /\ ret' = <<"add_expression", r.index>>
        /\ issued' = issued \cup {r.index}
        /\ given' = [id \in DOMAIN given \cup {r.index} |->
                        IF id = r.index THEN target_type_name ELSE given[id]]
        /\ original' = [id \in DOMAIN original \cup {r.index} |->
                           IF id = r.index THEN statement ELSE original[id]]
        /\ inserts' = inserts + 1
        /\ UNCHANGED <<marked, dead, removes, removed>>

add_constant_expression(expr, target_type) ==
    add_expression(expr, target_type)

\* maybe_add_constant_expression registering an empty statement when it is given none
maybe_add_constant_expression_or_empty(expr, targe_type_name) ==
    LET it == IF expr = None THEN [kind |-> "EmptyStatement"] ELSE expr[1]
        r == Arena_insert(expressions,
                          ConstWrapper(Unresolved(it), targe_type_name))
    IN  /\ expressions' = r.arena
        /\ ret' = <<"maybe_add_constant_expression", Some(r.index)>>
        /\ issued' = issued \cup {r.index}
        /\ given' = [id \in DOMAIN given \cup {r.index} |->
                        IF id = r.index THEN targe_type_name ELSE given[id]]
        /\ original' = [id \in DOMAIN original \cup {r.index} |->
                           IF id = r.index THEN it ELSE original[id]]
        /\ inserts' = inserts + 1
        /\ UNCHANGED <<marked, dead, removes, removed>>

\* expr.map(|it| self.add_constant_expression(it, targe_type_name.to_string()))
maybe_add_constant_expression(expr, targe_type_name) ==
    IF expr = None
    THEN /\ ret' = <<"maybe_add_constant_expression", None>>
         /\ UNCHANGED <<expressions, issued, given, original, marked, dead, inserts,
                        removes, removed>>
    ELSE LET it == expr[1]
             r == Arena_insert(expressions,
                               ConstWrapper(Unresolved(it), targe_type_name))
         IN  /\ expressions' = r.arena
             /\ ret' = <<"maybe_add_constant_expression", Some(r.index)>>
             /\ issued' = issued \cup {r.index}
             /\ given' = [id \in DOMAIN given \cup {r.index} |->
                             IF id = r.index THEN targe_type_name ELSE given[id]]
             /\ original' = [id \in DOMAIN original \cup {r.index} |->
                                IF id = r.index THEN it ELSE original[id]]
             /\ inserts' = inserts + 1
             /\ UNCHANGED <<marked, dead, removes, removed>>

\* remove returning the reason of an Unresolvable entry in place of its type name
remove_returning_reason(id) ==
    LET r == Arena_remove(expressions, id)
        RemovedPair(it) ==
            IF it.expr.tag = "Unresolvable"
            THEN <<it.expr.statement, it.expr.reason>>
            ELSE <<it.expr.statement, it.target_type_name>>
    IN  /\ expressions' = r.arena
        /\ ret' = <<"remove", Option_map(r.value, RemovedPair)>>
        /\ removes' = removes + 1
        /\ removed' = IF r.value = None THEN removed ELSE removed + 1
        /\ dead' = IF r.value = None THEN dead ELSE dead \cup {id}
        /\ given' = IF r.value = None THEN given
                     ELSE [h \in DOMAIN given \ {id} |-> given[h]]
        /\ original' = IF r.value = None THEN original
                        ELSE [h \in DOMAIN original \ {id} |-> original[h]]
        /\ marked' = IF r.value = None THEN marked ELSE marked \ {id}
        /\ UNCHANGED <<issued, inserts>>

\* remove reading the entry (Arena::get) instead of taking it out of the arena
remove_without_removing(id) ==
    LET value == Arena_get(expressions, id)
        RemovedPair(it) == <<ConstExpression_get_statement(it.expr), it.target_type_name>>
    IN  /\ UNCHANGED expressions
        /\ ret' = <<"remove", Option_map(value, RemovedPair)>>
        /\ removes' = removes + 1
        /\ removed' = IF value = None THEN removed ELSE removed + 1
        /\ dead' = IF value = None THEN dead ELSE dead \cup {id}
        /\ given' = IF value = None THEN given
                     ELSE [h \in DOMAIN given \ {id} |-> given[h]]
        /\ original' = IF value = None THEN original
                        ELSE [h \in DOMAIN original \ {id} |-> original[h]]
        /\ marked' = IF value = None THEN marked ELSE marked \ {id}
        /\ UNCHANGED <<issued, inserts>>

\* remove taking out whatever entry occupies the handle's slot, ignoring the generation
remove_by_position(id) ==
    LET found == IF /\ id.index < Len(expressions.items)
                    /\ expressions.items[id.index + 1].tag = "Occupied"
                 THEN ConstId(id.index, expressions.items[id.index + 1].generation)
                 ELSE id
        r == Arena_remove(expressions, found)
        RemovedPair(it) == <<ConstExpression_get_statement(it.expr), it.target_type_name>>
    IN  /\ expressions' = r.arena
        /\ ret' = <<"remove", Option_map(r.value, RemovedPair)>>
        /\ removes' = removes + 1
        /\ removed' = IF r.value = None THEN removed ELSE removed + 1
        /\ dead' = IF r.value = None THEN dead ELSE dead \cup {found}
        /\ given' = IF r.value = None THEN given
                     ELSE [h \in DOMAIN given \ {found} |-> given[h]]
        /\ original' = IF r.value = None THEN original
                        ELSE [h \in DOMAIN original \ {found} |-> original[h]]
        /\ marked' = IF r.value = None THEN marked ELSE marked \ {found}
        /\ UNCHANGED <<issued, inserts>>

remove(id) ==
    LET r == Arena_remove(expressions, id)
        RemovedPair(it) == <<ConstExpression_get_statement(it.expr), it.target_type_name>>
    IN  /\ expressions' = r.arena
        /\ ret' = <<"remove", Option_map(r.value, RemovedPair)>>
        /\ removes' = removes + 1
        /\ removed' = IF r.value = None THEN removed ELSE removed + 1
        /\ dead' = IF r.value = None THEN dead ELSE dead \cup {id}
        /\ given' = IF r.value = None THEN given
                     ELSE [h \in DOMAIN given \ {id} |-> given[h]]
        /\ original' = IF r.value = None THEN original
                        ELSE [h \in DOMAIN original \ {id} |-> original[h]]
        /\ marked' = IF r.value = None THEN marked ELSE marked \ {id}
        /\ UNCHANGED <<issued, inserts>>

\* mark_resolved storing a new wrapper, whose target type name is empty
mark_resolved_replacing_wrapper(id, new_statement) ==
    /\ IF Arena_get(expressions, id) = None
       THEN /\ ret' = <<"mark_resolved",
                        Err(<<"Cannot find constant expression with id: ", id>>)>>
            /\ UNCHANGED <<expressions, original, marked>>
       ELSE /\ expressions' =
                  [expressions EXCEPT !.items[id.index + 1].value =
                                         ConstWrapper(Resolved(new_statement), "")]
            /\ ret' = <<"mark_resolved", Ok(Unit)>>
            /\ original' = [h \in DOMAIN original \ {id} |-> original[h]]
            /\ marked' = marked \cup {id}
    /\ UNCHANGED <<issued, given, dead, inserts, removes, removed>>

\* mark_resolved wrapping the entry's current statement instead of the new one
mark_resolved_keeping_statement(id, new_statement) ==
    /\ IF Arena_get(expressions, id) = None
       THEN /\ ret' = <<"mark_resolved",
                        Err(<<"Cannot find constant expression with id: ", id>>)>>
            /\ UNCHANGED <<expressions, original, marked>>
       ELSE LET wrapper == Arena_get(expressions, id)[1]
            IN  /\ expressions' =
                      Arena_set_expr(expressions, id,
                                     Resolved(ConstWrapper_get_statement(wrapper)))
                /\ ret' = <<"mark_resolved", Ok(Unit)>>
                /\ original' = [h \in DOMAIN original \ {id} |-> original[h]]
                /\ marked' = marked \cup {id}
    /\ UNCHANGED <<issued, given, dead, inserts, removes, removed>>

\* mark_resolved finding the entry by slot position alone, ignoring the generation
mark_resolved_by_position(id, new_statement) ==
    /\ IF \/ id.index >= Len(expressions.items)
          \/ expressions.items[id.index + 1].tag # "Occupied"
       THEN /\ ret' = <<"mark_resolved",
                        Err(<<"Cannot find constant expression with id: ", id>>)>>
            /\ UNCHANGED <<expressions, original, marked>>
       ELSE LET found == ConstId(id.index, expressions.items[id.index + 1].generation)
            IN  /\ expressions' = Arena_set_expr(expressions, id, Resolved(new_statement))
                /\ ret' = <<"mark_resolved", Ok(Unit)>>
                /\ original' = [h \in DOMAIN original \ {found} |-> original[h]]
                /\ marked' = marked \cup {found}
    /\ UNCHANGED <<issued, given, dead, inserts, removes, removed>>

mark_resolved(id, new_statement) ==
    /\ IF Arena_get(expressions, id) = None
       THEN /\ ret' = <<"mark_resolved",
                        Err(<<"Cannot find constant expression with id: ", id>>)>>
            /\ UNCHANGED <<expressions, original, marked>>
       ELSE /\ expressions' = Arena_set_expr(expressions, id, Resolved(new_statement))
            /\ ret' = <<"mark_resolved", Ok(Unit)>>
            /\ original' = [h \in DOMAIN original \ {id} |-> original[h]]
            /\ marked' = marked \cup {id}
    /\ UNCHANGED <<issued, given, dead, inserts, removes, removed>>

\* mark_unresolvable moving the statement out of the entry, leaving an empty one behind
mark_unresolvable_losing_statement(id, reason) ==
    /\ IF Arena_get(expressions, id) = None
       THEN /\ ret' = <<"mark_unresolvable",
                        Err(<<"Cannot find constant expression with id: ", id>>)>>
            /\ UNCHANGED <<expressions, marked>>
       ELSE /\ expressions' =
                  Arena_set_expr(expressions, id,
                                 Unresolvable([kind |-> "EmptyStatement"], reason))
            /\ ret' = <<"mark_unresolvable", Ok(Unit)>>
            /\ marked' = marked \cup {id}
    /\ UNCHANGED <<issued, given, original, dead, inserts, removes, removed>>

\* mark_unresolvable keeping the first reason of an entry that is already Unresolvable
mark_unresolvable_keeping_reason(id, reason) ==
    /\ IF Arena_get(expressions, id) = None
       THEN /\ ret' = <<"mark_unresolvable",
                        Err(<<"Cannot find constant expression with id: ", id>>)>>
            /\ UNCHANGED <<expressions, marked>>
       ELSE LET wrapper == Arena_get(expressions, id)[1]
            IN  /\ expressions' =
                      IF wrapper.expr.tag = "Unresolvable"
                      THEN expressions
                      ELSE Arena_set_expr(expressions, id,
                              Unresolvable(clone(ConstWrapper_get_statement(wrapper)),
                                           reason))
                /\ ret' = <<"mark_unresolvable", Ok(Unit)>>
                /\ marked' = marked \cup {id}
    /\ UNCHANGED <<issued, given, original, dead, inserts, removes, removed>>

\* mark_unresolvable putting the entry back to Unresolved, to be evaluated again
mark_unresolvable_as_unresolved(id, reason) ==
    /\ IF Arena_get(expressions, id) = None
       THEN /\ ret' = <<"mark_unresolvable",
                        Err(<<"Cannot find constant expression with id: ", id>>)>>
            /\ UNCHANGED <<expressions, marked>>
       ELSE LET wrapper == Arena_get(expressions, id)[1]
            IN  /\ expressions' =
                      Arena_set_expr(expressions, id,
                          Unresolved(clone(ConstWrapper_get_statement(wrapper))))
                /\ ret' = <<"mark_unresolvable", Ok(Unit)>>
                /\ marked' = marked \cup {id}
    /\ UNCHANGED <<issued, given, original, dead, inserts, removes, removed>>

mark_unresolvable(id, reason) ==
    /\ IF Arena_get(expressions, id) = None
       THEN /\ ret' = <<"mark_unresolvable",
                        Err(<<"Cannot find constant expression with id: ", id>>)>>
            /\ UNCHANGED <<expressions, marked>>
       ELSE LET wrapper == Arena_get(expressions, id)[1]
            IN  /\ expressions' =
                      Arena_set_expr(expressions, id,
                          Unresolvable(clone(ConstWrapper_get_statement(wrapper)), reason))
                /\ ret' = <<"mark_unresolvable", Ok(Unit)>>
                /\ marked' = marked \cup {id}
    /\ UNCHANGED <<issued, given, original, dead, inserts, removes, removed>>

\* `for (id, statement) in &const_expressions`: the iterator borrows the registry
\* shared, so no mutation interleaves with it; the loop runs to the end in one step
into_iter_all ==
    /\ ret' = <<"into_iter", into_iter(expressions)>>
    /\ UNCHANGED <<expressions, issued, given, original, marked, dead, inserts, removes,
                   removed>>

\* Every operation, on entries of one type name.
Next ==
    \/ \E s \in Parsed, t \in {"INT"} :
          inserts < MaxInserts /\ add_expression(s, t) /\ UNCHANGED driver
    \/ \E id \in Ids : removes < MaxRemoves /\ remove(id) /\ UNCHANGED driver
    \/ \E id \in Ids, s \in Evaluated : mark_resolved(id, s) /\ UNCHANGED driver
    \/ \E id \in Ids, r \in Reasons : mark_unresolvable(id, r) /\ UNCHANGED driver

Spec == Init /\ [][Next]_vars

\* Every operation, on entries of several type names, with one evaluation result and
\* one reason.
NextTypes ==
    \/ \E s \in Parsed, t \in TypeNames :
          inserts < MaxInserts /\ add_expression(s, t) /\ UNCHANGED driver
    \/ \E id \in Ids : removes < MaxRemoves /\ remove(id) /\ UNCHANGED driver
    \/ \E id \in Ids, s \in {LiteralInteger(7)} : mark_resolved(id, s) /\ UNCHANGED driver
    \/ \E id \in Ids, r \in {"undeclared symbol Z"} :
          mark_unresolvable(id, r) /\ UNCHANGED driver

SpecTypes == Init /\ [][NextTypes]_vars

\* The registry's slots and handles alone: one statement, one type name, more entries.
NextArena ==
    \/ \E s \in ArenaStatements, t \in ArenaTypeNames :
          inserts < MaxArenaInserts /\ add_constant_expression(s, t) /\ UNCHANGED driver
    \/ \E id \in Ids : removes < MaxArenaRemoves /\ remove(id) /\ UNCHANGED driver

SpecArena == Init /\ [][NextArena]_vars

\* The mutating operations between iterations over the registry: one statement, one
\* type name, one evaluation result, one reason.
NextViews ==
    \/ \E s \in {BinaryExpression(3, 4)}, t \in {"INT"} :
          inserts < MaxInserts /\ add_constant_expression(s, t) /\ UNCHANGED driver
    \/ \E expr \in {None, Some(BinaryExpression(3, 4))}, t \in {"INT"} :
          inserts < MaxInserts /\ maybe_add_constant_expression(expr, t)
                               /\ UNCHANGED driver
    \/ \E id \in Ids : removes < MaxRemoves /\ remove(id) /\ UNCHANGED driver
    \/ \E id \in Ids : mark_resolved(id, LiteralInteger(7)) /\ UNCHANGED driver
    \/ \E id \in Ids : mark_unresolvable(id, "cannot resolve") /\ UNCHANGED driver
    \/ into_iter_all /\ UNCHANGED driver

SpecViews == Init /\ [][NextViews]_vars


(***************************************************************************)
(* The compiler driver, src/main.rs.  main_compile reads the input files,  *)
(* then performs the output action its parameters select.  The file system *)
(* (glob, read_to_string, write) and the compile functions of the library  *)
(* are the driver's environment: each call's outcome is an input.          *)
(***************************************************************************)
MaxFiles == 2

\* cli::CompileParameters, as far as main_compile reads it
CompileParameters ==
    [input : {"*.st"}, output : {"out"},
     output_bit_code : BOOLEAN, output_ir : BOOLEAN, output_pic_obj : BOOLEAN,
     output_shared_obj : BOOLEAN, output_obj_code : BOOLEAN]

\* fs::read_to_string: two files can be read, one cannot
read_to_string(path) ==
    CASE path = "a.st" -> Ok("PROGRAM a END_PROGRAM")
      [] path = "b.st" -> Ok("PROGRAM b END_PROGRAM")
      [] OTHER         -> Err("permission denied")

\* the items the iterator glob returns can yield: a path, or a GlobError
PathBufs == { Ok("a.st"), Ok("b.st"), Ok("locked.st"), Err("unreadable directory") }

\* glob(input): a PatternError, or the items of up to MaxFiles matches
GlobResults ==
    { Err("pattern syntax error") }
       \cup { Ok(paths) : paths \in UNION { [1..n -> PathBufs] : n \in 0..MaxFiles } }

read_content(path_buf) ==
    IF path_buf[1] = "Err"
    THEN Err(<<"Invalid Path: ", path_buf[2]>>)
    ELSE LET path == path_buf[2]
             content == read_to_string(path)
         IN  IF content[1] = "Ok"
             THEN Ok(<<path, content[2]>>)
             ELSE Err(<<"Cannot read file ", path, content[2]>>)

\* Iterator::collect into Result<Vec<_>, _>: the values, or the first error
RECURSIVE Result_collect(_)
Result_collect(results) ==
    IF results = <<>>
    THEN Ok(<<>>)
    ELSE IF Head(results)[1] = "Err"
         THEN Head(results)
         ELSE LET rest == Result_collect(Tail(results))
              IN  IF rest[1] = "Err" THEN rest ELSE Ok(<<Head(results)[2]>> \o rest[2])

\* [String]::join: a text is the sequence of its pieces
RECURSIVE join(_, _)
join(strings, separator) ==
    IF strings = <<>>
    THEN <<>>
    ELSE IF Len(strings) = 1
         THEN <<strings[1]>>
         ELSE <<strings[1], separator>> \o join(Tail(strings), separator)

\* read_contents, with globbed the outcome of glob(input)
read_contents(input, globbed) ==
    IF globbed[1] = "Err"
    THEN Err(<<"Failed to read glob pattern: ", input, globbed[2]>>)
    ELSE LET paths == globbed[2]
             read == [k \in 1..Len(paths) |-> read_content(paths[k])]
             contents == Result_collect(
                            [k \in 1..Len(read) |->
                                IF read[k][1] = "Ok" THEN Ok(read[k][2][2]) ELSE read[k]])
         IN  IF contents[1] = "Err" THEN contents ELSE Ok(join(contents[2], "\n"))

\* outcomes of a compile function of the library and of fs::write
Outcomes == { "Ok", "Err" }

\* main_compile is entered with the parameters main has parsed
Entered(parameters) ==
    [pc |-> "main_compile", parameters |-> parameters, contents |-> None,
     performed |-> <<>>, panic |-> None]

\* Result::unwrap on the driver's path: go on at pc with the value, or panic
unwrap(result, pc) ==
    IF result[1] = "Ok"
    THEN [driver EXCEPT !.pc = pc]
    ELSE [driver EXCEPT !.pc = "panicked", !.panic = Some(result[2])]

\* the chain tested in the order IR, bitcode, PIC object, shared object, object code
main_compile_output_format_ir_first(parameters) ==
    IF parameters.output_ir THEN "generate_ir"
    ELSE IF parameters.output_bit_code THEN "compile_to_bitcode"
    ELSE IF parameters.output_pic_obj THEN "compile_to_shared_object"
    ELSE IF parameters.output_shared_obj THEN "compile_to_shared_object"
    ELSE IF parameters.output_obj_code THEN "compile_to_static_obj"
    ELSE "panic"

\* the if / else-if chain of main_compile: the function it calls
main_compile_output_format(parameters) ==
    IF parameters.output_bit_code THEN "compile_to_bitcode"
    ELSE IF parameters.output_ir THEN "generate_ir"
    ELSE IF parameters.output_pic_obj THEN "compile_to_shared_object"
    ELSE IF parameters.output_shared_obj THEN "compile_to_shared_object"
    ELSE IF parameters.output_obj_code THEN "compile_to_static_obj"
    ELSE "panic"

\* let contents = read_contents(file_path).unwrap();
main_compile_read_contents(globbed) ==
    /\ driver.pc = "main_compile"
    /\ LET contents == read_contents(driver.parameters.input, globbed)
       IN  driver' = IF contents[1] = "Ok"
                     THEN [driver EXCEPT !.pc = "output", !.contents = Some(contents[2])]
                     ELSE unwrap(contents, "output")

\* the chain: one compile function is called and its result unwrapped; generate_ir
\* calls compile_to_ir and returns its error, or goes on to write the IR
main_compile_output(outcome) ==
    /\ driver.pc = "output"
    /\ LET format == main_compile_output_format(driver.parameters)
       IN  driver' =
              IF format = "panic"
              THEN [driver EXCEPT !.pc = "panicked",
                                  !.panic = Some("no output format defined")]
              ELSE IF format = "generate_ir"
              THEN [unwrap(<<outcome, "CompileError">>, "generate_ir")
                       EXCEPT !.performed = Append(@, <<"compile_to_ir", outcome>>)]
              ELSE [unwrap(<<outcome, "CompileError">>, "returned")
                       EXCEPT !.performed = Append(@, <<format, outcome>>)]

\* fs::write(output, ir).unwrap(); Ok(()) and the unwrap of it in main_compile
generate_ir_write(outcome) ==
    /\ driver.pc = "generate_ir"
    /\ driver' = [unwrap(<<outcome, "io error">>, "returned")
                    EXCEPT !.performed = Append(@, <<"fs::write", outcome>>)]

\* The registry is not touched by the driver.
InitMain ==
    /\ expressions = Arena_new
    /\ ret = <<"new", Unit>>
    /\ issued = {}
    /\ given = <<>>
    /\ original = <<>>
    /\ marked = {}
    /\ dead = {}
    /\ inserts = 0
    /\ removes = 0
    /\ removed = 0
    /\ driver \in { Entered(parameters) : parameters \in CompileParameters }

registry == <<expressions, ret, issued, given, original, marked, dead, inserts, removes, removed>>

NextMain ==
    \/ \E globbed \in GlobResults :
          main_compile_read_contents(globbed) /\ UNCHANGED registry
    \/ \E outcome \in Outcomes : main_compile_output(outcome) /\ UNCHANGED registry
    \/ \E outcome \in Outcomes : generate_ir_write(outcome) /\ UNCHANGED registry

SpecMain == InitMain /\ [][NextMain]_vars


(***************************************************************************)
(* Properties of the registry.                                             *)
(***************************************************************************)

\* C1: every insertion (add_expression, add_constant_expression) returns a handle
\* that is live at once; through it find_expression yields exactly the statement
\* inserted, find_const_expression yields Unresolved(statement), and
\* find_expression_target_type yields exactly the type name supplied.
C1_InsertYieldsUnresolvedEntry ==
    [][\A s \in Statements, t \in TypeNames :
          (/\ inserts' = inserts + 1
           /\ add_expression(s, t) \/ add_constant_expression(s, t)) =>
             /\ ret'[1] = "add_expression"
             /\ find_expression(expressions', ret'[2]) = Some(s)
             /\ find_const_expression(expressions', ret'[2]) = Some(Unresolved(s))
             /\ find_expression_target_type(expressions', ret'[2]) = Some(t)]_vars

\* an insertion has just returned, into a slot an earlier removal had freed
C1_Witness ==
    /\ ret[1] = "add_expression"
    /\ expressions.generation > 0
    /\ \E h \in dead : h.index = ret[2].index
    /\ find_const_expression(expressions, ret[2]) # None

\* C2: once remove has returned the entry of a handle, the handle is invalid for
\* good: in every later state the three lookups on it are absent and the integer
\* accessor fails, and every later remove returns absent and every later
\* mark_resolved / mark_unresolvable fails on it, also after insertions have reused
\* its slot.
C2_RemovedHandleStaysInvalid ==
    /\ [](\A h \in dead :
            /\ find_expression(expressions, h) = None
            /\ find_expression_target_type(expressions, h) = None
            /\ find_const_expression(expressions, h) = None
            /\ get_constant_int_statement_value(expressions, h)[1] = "Err")
    /\ [][\A h \in dead :
            /\ (removes' = removes + 1 /\ remove(h)) => ret'[2] = None
            /\ \A s \in Statements :
                  (ret'[1] = "mark_resolved" /\ mark_resolved(h, s)) => ret'[2][1] = "Err"
            /\ \A r \in Reasons :
                  (ret'[1] = "mark_unresolvable" /\ mark_unresolvable(h, r)) =>
                     ret'[2][1] = "Err"]_vars

\* the slot of a removed handle holds a later entry, and a remove has returned absent
C2_Witness ==
    /\ \E h \in dead : /\ h.index < Len(expressions.items)
                        /\ expressions.items[h.index + 1].tag = "Occupied"
    /\ ret = <<"remove", None>>

\* C3: the handles insertions have returned are pairwise different, whether their
\* entries are live or removed: as many different handles were issued as insertions
\* were made, and no removed handle is live again under a later insertion.
C3_HandlesNeverRepeat ==
    /\ Cardinality(issued) = inserts
    /\ dead \cap Live = {}

\* a removed handle and a live one share a slot position, in an arena that has grown
C3_Witness ==
    /\ \E h \in dead : \E l \in Live : h.index = l.index /\ h # l
    /\ Len(expressions.items) > DEFAULT_CAPACITY

\* C4: a mark_resolved(h, s) that succeeds leaves the entry of h as Resolved(s):
\* find_const_expression(h) is Resolved(s) and find_expression(h) is s, whatever
\* statement was stored before; h denotes the same entry (the live handles are the
\* same) and its target type name is still the one given at insertion.
C4_MarkResolvedReplacesNode ==
    [][\A h \in Ids, s \in Statements :
          (/\ ret' = <<"mark_resolved", Ok(Unit)>>
           /\ Arena_contains(expressions, h)
           /\ mark_resolved(h, s)) =>
             /\ find_const_expression(expressions', h) = Some(Resolved(s))
             /\ find_expression(expressions', h) = Some(s)
             /\ find_expression_target_type(expressions', h) = Some(given[h])
             /\ Live' = Live]_vars

\* mark_resolved has just succeeded and an entry holds the evaluated literal 7, which
\* no insertion supplies
C4_Witness ==
    /\ ret = <<"mark_resolved", Ok(Unit)>>
    /\ \E h \in Live :
          find_const_expression(expressions, h) = Some(Resolved(LiteralInteger(7)))

\* C5: a mark_unresolvable(h, r) that succeeds, from any state of the entry, leaves
\* find_const_expression(h) as Unresolvable with exactly the reason r and with the
\* statement find_expression(h) returned before the call, which find_expression(h)
\* still returns; when the entry was Unresolved that statement is the one inserted.
C5_MarkUnresolvableKeepsNode ==
    [][\A h \in Ids, r \in Reasons :
          (/\ ret' = <<"mark_unresolvable", Ok(Unit)>>
           /\ Arena_contains(expressions, h)
           /\ mark_unresolvable(h, r)) =>
             LET before == find_expression(expressions, h)
             IN  /\ before # None
                 /\ find_const_expression(expressions', h) =
                       Some(Unresolvable(before[1], r))
                 /\ find_expression(expressions', h) = before
                 /\ find_const_expression(expressions, h)[1].tag = "Unresolved" =>
                       find_expression(expressions', h) = Some(original[h])]_vars

\* mark_unresolvable has just succeeded; one entry went from Unresolved to Unresolvable
\* and another from Resolved to Unresolvable
C5_Witness ==
    /\ ret = <<"mark_unresolvable", Ok(Unit)>>
    /\ \E h \in Live :
          /\ find_const_expression(expressions, h)[1].tag = "Unresolvable"
          /\ h \in DOMAIN original
    /\ \E h \in Live :
          /\ find_const_expression(expressions, h)[1].tag = "Unresolvable"
          /\ find_expression(expressions, h) = Some(LiteralInteger(7))

\* C6: mark_resolved and mark_unresolvable on a handle no insertion has returned, or
\* whose entry was removed, return the handle-not-found error and change nothing in
\* the registry; and whatever call came before, also a failed one, the two calls
\* succeed on every live handle.
C6_UnknownHandleFailsCleanly ==
    [][\A h \in Ids :
          /\ \A s \in Statements :
                (ret'[1] = "mark_resolved" /\ mark_resolved(h, s)) =>
                   IF h \notin issued \/ h \in dead
                   THEN /\ ret'[2] = Err(<<"Cannot find constant expression with id: ", h>>)
                        /\ expressions' = expressions
                   ELSE ret'[2] = Ok(Unit)
          /\ \A r \in Reasons :
                (ret'[1] = "mark_unresolvable" /\ mark_unresolvable(h, r)) =>
                   IF h \notin issued \/ h \in dead
                   THEN /\ ret'[2] = Err(<<"Cannot find constant expression with id: ", h>>)
                        /\ expressions' = expressions
                   ELSE ret'[2] = Ok(Unit)]_vars

\* a call on the handle of a removed entry has just failed while its slot holds a later,
\* live entry
C6_Witness ==
    /\ ret[1] \in {"mark_resolved", "mark_unresolvable"}
    /\ ret[2][1] = "Err"
    /\ ret[2][2][2] \in dead
    /\ \E l \in Live : l.index = ret[2][2][2].index

\* the handles the iteration yields, in order
IterHandles(self) == [k \in 1..Len(into_iter(self)) |-> into_iter(self)[k][1]]

\* C7: get_constant_int_statement_value(h) is decided by whether h is live and by the
\* shape of the statement in the entry, never by the entry's state: handle-not-found
\* when h is not live; exactly the payload when the statement is an integer literal,
\* in each of the three states; a different error, naming the statement, for every
\* other shape.  A non-literal entry marked resolved with the literal 7 yields 7.
C7_IntValueByShapeOnly ==
    /\ [](\A h \in AllIds :
            LET v == get_constant_int_statement_value(expressions, h)
                e == find_const_expression(expressions, h)
            IN  /\ ~Arena_contains(expressions, h) =>
                      v = Err(<<"Cannot find constant expression">>)
                /\ (Arena_contains(expressions, h)
                      /\ e[1].statement.kind = "LiteralInteger") =>
                      v = Ok(e[1].statement.value)
                /\ (Arena_contains(expressions, h)
                      /\ e[1].statement.kind # "LiteralInteger") =>
                      /\ v = Err(<<"Cannot extract int constant from ", e[1].statement>>)
                      /\ v # Err(<<"Cannot find constant expression">>))
    /\ [][\A h \in Ids :
            (/\ ret' = <<"mark_resolved", Ok(Unit)>>
             /\ find_expression(expressions, h) # None
             /\ find_expression(expressions, h)[1].kind # "LiteralInteger"
             /\ mark_resolved(h, LiteralInteger(7))) =>
               get_constant_int_statement_value(expressions', h) = Ok(7)]_vars

\* an Unresolvable entry holds the literal 7 it was resolved to and yields 7, while
\* another entry holds a non-literal statement and yields the shape error
C7_Witness ==
    /\ \E h \in Live :
          /\ find_const_expression(expressions, h)[1].tag = "Unresolvable"
          /\ get_constant_int_statement_value(expressions, h) = Ok(7)
    /\ \E h \in Live :
          /\ get_constant_int_statement_value(expressions, h)[1] = "Err"
          /\ find_expression(expressions, h) = Some(BinaryExpression(3, 4))

\* C8 as stated: the number of pairs the iteration yields is the number of
\* insertions less the number of remove calls.
C8_SizeIsInsertsLessRemoveCalls ==
    Len(into_iter(expressions)) = inserts - removes

\* C8, amended: the iteration yields as many pairs as insertions were made less the
\* remove calls that returned an entry; no handle is yielded twice and no handle of a
\* removed entry is yielded.
C8_SizeIsInsertsLessRemovedEntries ==
    LET handles == IterHandles(expressions)
    IN  /\ Len(handles) = inserts - removed
        /\ \A j, k \in 1..Len(handles) : j # k => handles[j] # handles[k]
        /\ \A k \in 1..Len(handles) : handles[k] \notin dead

\* entries were inserted and removed, a remove call returned absent, a freed slot was
\* reused, and the iteration yields several pairs
C8_Witness ==
    /\ removed > 0
    /\ removes > removed
    /\ Len(into_iter(expressions)) > 1
    /\ \E h \in dead : \E l \in Live : h.index = l.index

\* C9: remove(h) on a live handle returns the statement find_expression(h) returned
\* before the call (the one inside the entry's variant, without the reason) paired with
\* the type name given at insertion, and takes the entry out; on a handle that is not
\* live it returns absent and leaves the registry unchanged.
C9_RemoveReturnsNodeAndType ==
    [][\A h \in Ids :
          (removes' = removes + 1 /\ remove(h)) =>
             IF Arena_contains(expressions, h)
             THEN /\ ret'[2] = Some(<<find_expression(expressions, h)[1], given[h]>>)
                  /\ ret'[2][1][1] = find_const_expression(expressions, h)[1].statement
                  /\ Live' = Live \ {h}
             ELSE /\ ret'[2] = None
                  /\ expressions' = expressions]_vars

\* a remove has just returned the evaluated literal 7 of an Unresolvable entry with its
\* type name
C9_Witness ==
    /\ ret[1] = "remove"
    /\ ret[2] = Some(<<LiteralInteger(7), "DINT">>)
    /\ \E h \in dead : h \notin DOMAIN given

\* C10: as long as a handle is live, find_expression_target_type on it returns the
\* type name supplied to the insertion that returned it, whatever calls were made
\* since.
C10_TargetTypeFixedAtCreation ==
    /\ DOMAIN given = Live
    /\ \A h \in Live : find_expression_target_type(expressions, h) = Some(given[h])

\* after another entry was inserted and removed, a live entry of type DINT has been
\* marked resolved and then unresolvable
C10_Witness ==
    /\ dead # {}
    /\ \E h \in Live :
          /\ find_expression_target_type(expressions, h) = Some("DINT")
          /\ find_const_expression(expressions, h) =
                Some(Unresolvable(LiteralInteger(7), "undeclared symbol Z"))


\* C11: for every handle, in every reachable state, find_expression,
\* find_expression_target_type and find_const_expression are all present or all
\* absent; they are present exactly when an insertion returned the handle and no
\* remove has since returned its entry; and when present, find_expression is the
\* statement inside the variant find_const_expression returns.
C11_LookupsAgree ==
    \A h \in AllIds :
       LET n == find_expression(expressions, h)
           t == find_expression_target_type(expressions, h)
           e == find_const_expression(expressions, h)
       IN  /\ (n = None) <=> (t = None)
           /\ (t = None) <=> (e = None)
           /\ (n # None) <=> (h \in issued /\ h \notin dead)
           /\ n # None => n = Some(e[1].statement)

\* a removed handle whose slot holds a later entry, which is Unresolvable
C11_Witness ==
    \E h \in dead : \E l \in Live :
       /\ h.index = l.index
       /\ find_const_expression(expressions, l)[1].tag = "Unresolvable"
       /\ find_expression(expressions, h) = None
       /\ find_expression(expressions, l) # None

\* C12: on a live handle mark_resolved and mark_unresolvable succeed from every prior
\* state (Unresolved, Resolved, Unresolvable) and overwrite it: mark_resolved leaves
\* Resolved(new node), with no reason, whatever the entry was; mark_unresolvable leaves
\* Unresolvable(node the entry held before, new reason), so a Resolved entry keeps its
\* resolved node and an Unresolvable entry keeps its node and takes the new reason.
C12_MarksOverwriteEveryState ==
    [][\A h \in Ids :
          Arena_contains(expressions, h) =>
             LET before == find_const_expression(expressions, h)[1]
                 after  == find_const_expression(expressions', h)
             IN  /\ before.tag \in {"Unresolved", "Resolved", "Unresolvable"}
                 /\ \A s \in Evaluated :
                       (ret'[1] = "mark_resolved" /\ mark_resolved(h, s)) =>
                          /\ ret'[2] = Ok(Unit)
                          /\ after = Some(Resolved(s))
                          /\ DOMAIN after[1] = {"tag", "statement"}
                 /\ \A r \in Reasons :
                       (ret'[1] = "mark_unresolvable" /\ mark_unresolvable(h, r)) =>
                          /\ ret'[2] = Ok(Unit)
                          /\ after = Some(Unresolvable(before.statement, r))]_vars

\* an entry that was marked resolved with 7 has then been marked unresolvable: it holds
\* the resolved node 7 and the reason of the last call; another entry is Resolved(42)
C12_Witness ==
    /\ ret = <<"mark_unresolvable", Ok(Unit)>>
    /\ \E h \in marked :
          /\ h \notin DOMAIN original
          /\ find_const_expression(expressions, h) =
                Some(Unresolvable(LiteralInteger(7), "cannot resolve"))
    /\ \E h \in marked :
          find_const_expression(expressions, h) =
             Some(Resolved(LiteralInteger(42)))

\* what the registry holds under a handle: resolution state with node and reason, and
\* target type name
EntryOf(self, id) ==
    <<find_const_expression(self, id), find_expression_target_type(self, id)>>

\* every handle but id has the same entry, or the same absence, before and after the
\* step (the handles of the state after the step include those of the state before)
OnlyAffects(id) ==
    \/ expressions' = expressions
    \/ \A other \in AllIds' :
          other # id => EntryOf(expressions', other) = EntryOf(expressions, other)

\* C13: every mutating operation affects only the entry it names: a mark_resolved,
\* mark_unresolvable or remove on a handle leaves the resolution state, node, reason and
\* type name of every other handle, and every other handle's liveness, as they were; an
\* insertion changes nothing but the handle it returns, which was not live before.
C13_OnlyTheNamedEntryChanges ==
    [][/\ \A h \in Ids :
             /\ \A s \in Evaluated :
                   (ret'[1] = "mark_resolved" /\ mark_resolved(h, s)) => OnlyAffects(h)
             /\ \A r \in Reasons :
                   (ret'[1] = "mark_unresolvable" /\ mark_unresolvable(h, r)) =>
                      OnlyAffects(h)
             /\ (removes' = removes + 1 /\ remove(h)) => OnlyAffects(h)
       /\ \A s \in Parsed, t \in TypeNames :
             (inserts' = inserts + 1 /\ add_expression(s, t)) =>
                /\ OnlyAffects(ret'[2])
                /\ EntryOf(expressions, ret'[2]) = <<None, None>>]_vars

\* a remove has just returned the entry of one handle while another handle, marked
\* unresolvable before, is still live with its node, reason and type name
C13_Witness ==
    /\ ret[1] = "remove"
    /\ ret[2] # None
    /\ \E h \in Live :
          /\ h \in marked
          /\ find_const_expression(expressions, h)[1].tag = "Unresolvable"
          /\ find_expression_target_type(expressions, h) = Some("DINT")

\* C14: Unresolved is only ever the initial state.  A live entry is Unresolved exactly
\* while no mark_resolved or mark_unresolvable has succeeded on its handle since its
\* insertion; and for a handle a mark has succeeded on, or whose entry has been removed,
\* no step makes find_const_expression report Unresolved again.
C14_UnresolvedOnlyInitially ==
    /\ [](\A h \in AllIds :
            LET e == find_const_expression(expressions, h)
            IN  e # None => (e[1].tag = "Unresolved" <=> h \notin marked))
    /\ [][\A h \in marked \cup dead :
             LET e == find_const_expression(expressions', h)
             IN  e = None \/ e[1].tag # "Unresolved"]_vars

\* one entry has been marked (resolved, then unresolvable) and is not Unresolved, while
\* an entry inserted beside it and never marked still is
C14_Witness ==
    /\ \E h \in marked :
          /\ h \notin DOMAIN original
          /\ find_const_expression(expressions, h)[1].tag = "Unresolvable"
    /\ \E h \in Live \ marked :
          find_const_expression(expressions, h)[1].tag = "Unresolved"

\* C15: iteration is a read-only, restartable view consistent with lookup.  In every
\* reachable state each pair (h, n) the iteration yields has find_expression(h) = n;
\* every live handle is yielded exactly once, whatever the state of its entry, and no
\* other handle is yielded; the sequence an iteration returned is the sequence iterating
\* again yields, as long as no other operation has returned since; and an iteration
\* step leaves every lookup as it was.
C15_IterationAgreesWithLookup ==
    /\ [](LET pairs == into_iter(expressions)
          IN  /\ \A k \in 1..Len(pairs) :
                    find_expression(expressions, pairs[k][1]) = Some(pairs[k][2])
              /\ \A h \in AllIds :
                    Cardinality({ k \in 1..Len(pairs) : pairs[k][1] = h }) =
                       IF Arena_contains(expressions, h) THEN 1 ELSE 0
              /\ Len(pairs) = expressions.len
              /\ ret[1] = "into_iter" => ret[2] = pairs)
    /\ [][(ret'[1] = "into_iter" /\ into_iter_all) =>
             \A h \in AllIds \cup AllIds' :
                EntryOf(expressions', h) = EntryOf(expressions, h)]_vars

\* an iteration has just yielded two pairs, one of an entry that is still Unresolved and
\* one of an entry marked unresolvable after it had been marked resolved
C15_Witness ==
    /\ ret[1] = "into_iter"
    /\ Len(ret[2]) = 2
    /\ find_const_expression(expressions, ret[2][1][1])[1].tag = "Unresolved"
    /\ find_const_expression(expressions, ret[2][2][1]) =
          Some(Unresolvable(LiteralInteger(7), "cannot resolve"))

\* C17: the convenience wrappers only forward absence.  maybe_add_constant_expression
\* given no statement returns None and leaves every lookup and the iteration as they
\* were; given a statement n it returns Some(h) with h and the registry after the call
\* being those of the insertion add_constant_expression(n, t) makes: h is new, is live
\* at once as Unresolved(n) of type t, and no other entry changes.
\* maybe_get_constant_statement of no handle is None, and of a handle h it is
\* get_constant_statement(h), which is find_expression(h).
C17_WrappersForwardAbsence ==
    /\ [](/\ maybe_get_constant_statement(expressions, None) = None
          /\ \A h \in AllIds :
                /\ maybe_get_constant_statement(expressions, Some(h)) =
                      get_constant_statement(expressions, h)
                /\ get_constant_statement(expressions, h) = find_expression(expressions, h))
    /\ [][\A t \in TypeNames :
             /\ (/\ ret'[1] = "maybe_add_constant_expression"
                 /\ maybe_add_constant_expression(None, t)) =>
                   /\ ret'[2] = None
                   /\ \A h \in AllIds \cup AllIds' :
                         EntryOf(expressions', h) = EntryOf(expressions, h)
                   /\ into_iter(expressions') = into_iter(expressions)
             /\ \A n \in Statements :
                   (/\ ret'[1] = "maybe_add_constant_expression"
                    /\ maybe_add_constant_expression(Some(n), t)) =>
                      LET added == Arena_insert(expressions, ConstWrapper(Unresolved(n), t))
                      IN  /\ ret'[2] = Some(added.index)
                          /\ expressions' = added.arena
                          /\ added.index \notin issued
                          /\ EntryOf(expressions', added.index) =
                                <<Some(Unresolved(n)), Some(t)>>
                          /\ OnlyAffects(added.index)]_vars

\* maybe_add_constant_expression, given a statement, has just returned a handle into a
\* slot that a removal had freed; the statement is found through both lookups
C17_Witness ==
    /\ ret[1] = "maybe_add_constant_expression"
    /\ ret[2] # None
    /\ \E h \in dead : h.index = ret[2][1].index
    /\ maybe_get_constant_statement(expressions, ret[2]) = Some(BinaryExpression(3, 4))


(***************************************************************************)
(* Properties of the driver.                                               *)
(***************************************************************************)

\* the compile function of the first set flag, in the order bitcode, IR,
\* position-independent object, shared object, static object
FirstSetFlag(parameters) ==
    LET order == <<"output_bit_code", "output_ir", "output_pic_obj", "output_shared_obj",
                   "output_obj_code">>
        action == [output_bit_code |-> "compile_to_bitcode", output_ir |-> "compile_to_ir",
                   output_pic_obj |-> "compile_to_shared_object",
                   output_shared_obj |-> "compile_to_shared_object",
                   output_obj_code |-> "compile_to_static_obj"]
        set == { k \in 1..Len(order) : parameters[order[k]] }
    IN  IF set = {} THEN None
        ELSE Some(action[order[CHOOSE k \in set : \A j \in set : k <= j]])

\* the compile functions among the output actions a run has performed
CompileActions ==
    SelectSeq(driver.performed, LAMBDA action : action[1] # "fs::write")

====
